---- MODULE Spec2Model ----
(***************************************************************************)
(* pytest_django_test/db_helpers.py: helpers that drop, probe and mark the *)
(* "inner" test database of a run, per database backend, by shelling out   *)
(* to psql / mysql or by touching the sqlite file, plus the probe that     *)
(* tells whether transactions are no-ops.                                  *)
(*                                                                         *)
(* Text is modelled as a sequence of words, so that Python's substring     *)
(* test ('DROP DATABASE' in out) is a contiguous-subsequence test.  Names  *)
(* are strings and are built with \o exactly where the code formats them.  *)
(***************************************************************************)
EXTENDS Integers, Sequences, FiniteSets, TLC

VARIABLES
    settings,   \* django.conf.settings.DATABASES['default'], read at import
    dbs,        \* databases on the server / sqlite files on disk that exist
    marked,     \* the existing databases that hold mark_table
    markedOk,   \* history: databases on which mark_database() has returned since creation
    fault,      \* what currently goes wrong in the environment of the client
    conn,       \* django.db.connection as the transaction probe sees it
    items,      \* number of committed Item rows named 'transaction_noop_test'
    last        \* the last call: arguments, outcome, and the state it started from

vars == <<settings, dbs, marked, markedOk, fault, conn, items, last>>

----------------------------------------------------------------------------
(* Bounds *)

\* Cap on the Item rows named 'transaction_noop_test' other code may leave behind.
MaxItems == 1

----------------------------------------------------------------------------
(* Python values *)

\* Python's None, kept apart from every string a setting or argument can hold.
NoneVal == "<None>"

\* bool(x) of a str-or-None.
Bool(x) == x # NoneVal /\ x # ""

\* '%s' % x of a str-or-None.
Str(x) == IF x = NoneVal THEN "None" ELSE x

\* str(b) of a bool.
PyBool(b) == IF b THEN "True" ELSE "False"

\* needle in hay, both texts.
Contains(needle, hay) ==
    \E i \in 1..(Len(hay) - Len(needle) + 1) :
        SubSeq(hay, i, i + Len(needle) - 1) = needle

----------------------------------------------------------------------------
(* Module-level names, lines 15-23 *)

InMemoryName == ":memory:"

TEST_DB_NAME_configured ==
    IF Bool(settings.TEST_NAME) THEN settings.TEST_NAME ELSE "test_" \o settings.NAME

TEST_DB_NAME ==
    IF TEST_DB_NAME_configured = InMemoryName
    THEN TEST_DB_NAME_configured
    ELSE TEST_DB_NAME_configured \o "_inner"

DB_NAME ==
    IF TEST_DB_NAME_configured = InMemoryName
    THEN "/invalid_should_never_be_accessed"
    ELSE settings.NAME \o "_inner"

\* Variant: the first dotted component, split('.')[0].
get_db_engine_first == settings.ENGINE[1]

\* settings.DATABASES['default']['ENGINE'].split('.')[-1]; ENGINE is kept split on '.'.
get_db_engine == settings.ENGINE[Len(settings.ENGINE)]

SqliteEngineString == <<"django", "db", "backends", "sqlite3">>

CmdResult(status_code, std_out, std_err) ==
    [status_code |-> status_code, std_out |-> std_out, std_err |-> std_err]

----------------------------------------------------------------------------
(* The client processes the helpers start.  An argument is a text (a       *)
(* sequence of words); a command line is a sequence of arguments.  Exit is *)
(* what the process leaves behind: exit status, captured output, and the   *)
(* databases it dropped or gave a mark_table.                              *)

Exit(status, out, err, dropped, marks) ==
    [status |-> status, out |-> out, err |-> err, dropped |-> dropped, marks |-> marks]

\* Words a client prints; the helpers search for some of them.
DropDatabaseTag == <<"DROP", "DATABASE">>
DoesNotExist == <<"does", "not", "exist">>
MyDoesntExist == <<"database", "doesn't", "exist">>

\* What each server says of a DROP DATABASE of a database it does not have.
PgAbsent(n) == <<"ERROR:", "database", n>> \o DoesNotExist

MyAbsent(n) == <<"ERROR", "1008:", "Can't", "drop", "database", n>> \o MyDoesntExist

\* The server (postgres if pg, else mysql) runs one SQL statement against the
\* database the client connected to.  busy: other sessions hold the database,
\* which only DROP DATABASE on postgres minds.
Sql(db, stmt, pg) ==
    CASE stmt[1] = "DROP" ->
            IF stmt[3] \notin dbs
            THEN Exit(1, <<>>, IF pg THEN PgAbsent(stmt[3]) ELSE MyAbsent(stmt[3]), {}, {})
            ELSE IF pg /\ fault = "busy"
            THEN Exit(1, <<>>, <<"ERROR:", "database", stmt[3], "is", "being",
                                 "accessed", "by", "other", "users">>, {}, {})
            ELSE Exit(0, DropDatabaseTag, <<>>, {stmt[3]}, {})
      [] stmt[1] = "CREATE" ->
            IF db \in marked
            THEN Exit(1, <<>>, <<"ERROR:", "mark_table", "already", "exists">>, {}, {})
            ELSE Exit(0, <<"CREATE", "TABLE">>, <<>>, {}, {db})
      [] stmt[1] = "SELECT" /\ Len(stmt) = 2 ->
            Exit(0, <<"?column?", "1", "(1", "row)">>, <<>>, {}, {})
      [] OTHER ->   \* SELECT 1 FROM mark_table
            IF db \in marked
            THEN Exit(0, <<"?column?", "(0", "rows)">>, <<>>, {}, {})
            ELSE Exit(1, <<>>, <<"ERROR:", "relation", "mark_table">> \o DoesNotExist, {}, {})

\* psql DBNAME -c STATEMENT
psql(args) ==
    LET db == args[2][1]
        stmt == args[4]
    IN  CASE fault = "killed" -> Exit(-9, <<>>, <<>>, {}, {})
          [] fault = "connfail" ->
                Exit(2, <<>>, <<"psql:", "could", "not", "connect", "to", "server">>, {}, {})
          [] fault = "norole" ->
                Exit(2, <<>>, <<"psql:", "FATAL:", "role", "root">> \o DoesNotExist, {}, {})
          [] OTHER ->
                IF db \notin dbs \cup {"postgres"}
                THEN Exit(2, <<>>, <<"psql:", "FATAL:", "database", db>> \o DoesNotExist, {}, {})
                ELSE Sql(db, stmt, TRUE)

\* mysql [-u USER] [DBNAME] -e STATEMENT
mysql(args) ==
    LET a == Tail(args)
        rest == IF a[1] = <<"-u">> THEN SubSeq(a, 3, Len(a)) ELSE a
        hasDb == rest[1] # <<"-e">>
        db == IF hasDb THEN rest[1][1] ELSE NoneVal
        stmt == IF hasDb THEN rest[3] ELSE rest[2]
    IN  CASE fault = "killed" -> Exit(-9, <<>>, <<>>, {}, {})
          [] fault = "connfail" ->
                Exit(1, <<>>, <<"ERROR", "2002:", "Can't", "connect", "to", "MySQL", "server">>, {}, {})
          [] fault = "norole" ->
                Exit(1, <<>>, <<"ERROR", "1045:", "Access", "denied", "for", "user">>, {}, {})
          [] OTHER ->
                IF hasDb /\ db \notin dbs
                THEN Exit(1, <<>>, <<"ERROR", "1049:", "Unknown", "database", db>>, {}, {})
                ELSE Sql(db, stmt, FALSE)

\* The process subprocess.Popen(args) starts.
Process(args) == IF args[1] = <<"psql">> THEN psql(args) ELSE mysql(args)

----------------------------------------------------------------------------
(* run_cmd, run_mysql: lines 38-51 *)

\* Variant: the two captured streams handed over in the wrong order.
run_cmd_swapped(args) ==
    LET r == Process(args)
    IN  CmdResult(r.status, r.err, r.out)

run_cmd(args) ==
    LET r == Process(args)
    IN  CmdResult(r.status, r.out, r.err)

mysql_args(args) ==
    LET user == settings.USER
        withUser == IF Bool(user) THEN << <<"-u">>, <<user>> >> \o args ELSE args
    IN  << <<"mysql">> >> \o withUser

run_mysql(args) == run_cmd(mysql_args(args))

----------------------------------------------------------------------------
(* What one call does: how it ends, and the state it leaves.  Call0 is a   *)
(* call that has done nothing yet and would return None.                   *)

Call0 ==
    [target |-> NoneVal, outcome |-> "return", value |-> "None", exc |-> "", msg |-> "",
     cmds |-> <<>>, conns |-> <<>>,
     result |-> CmdResult(0, <<>>, <<>>), proc |-> <<0, <<>>, <<>> >>,
     dbs |-> dbs, marked |-> marked, items |-> items]

Return(c, value) == [c EXCEPT !.value = value]

Raise(c, exc, msg) == [c EXCEPT !.outcome = "raise", !.exc = exc, !.msg = msg]

\* r = run_cmd(*args): the process ran; its effects on the server are done.
Ran(c, args) ==
    LET p == Process(args)
    IN  [c EXCEPT !.cmds = Append(@, args),
                  !.result = run_cmd(args),
                  !.proc = <<p.status, p.out, p.err>>,
                  !.dbs = @ \ p.dropped,
                  !.marked = (@ \ p.dropped) \cup p.marks]

\* conn = sqlite3.connect(path): opens the file, creating it empty when missing.
Connected(c, path) ==
    [c EXCEPT !.conns = Append(@, path), !.dbs = @ \cup {path}]

\* conn.execute(stmt) inside "with conn:", on the file at path: the exception it
\* raises ("" for none).  A file another process holds locked cannot be read.
SqliteExecute(path, stmt) ==
    CASE path \in dbs /\ fault = "locked" ->
            [exc |-> "OperationalError", msg |-> "database is locked"]
      [] stmt[1] = "CREATE" /\ path \in marked ->
            [exc |-> "OperationalError", msg |-> "table mark_table already exists"]
      [] stmt[1] = "SELECT" /\ path \notin marked ->
            [exc |-> "OperationalError", msg |-> "no such table: mark_table"]
      [] OTHER -> [exc |-> "", msg |-> ""]

UnsupportedMessage == get_db_engine \o " cannot be tested properly!"

----------------------------------------------------------------------------
(* drop_database: lines 62-88 *)

\* assert bool(name) ^ bool(suffix)
DropArgsAccepted(name, suffix) == Bool(name) # Bool(suffix)

\* Variant: only a performed drop is accepted, an absent database is an error.
PgDropAccepted_strict(r) == Contains(DropDatabaseTag, r.std_out)

\* 'DROP DATABASE' in std_out or 'does not exist' in std_err
PgDropAccepted(r) ==
    Contains(DropDatabaseTag, r.std_out) \/ Contains(DoesNotExist, r.std_err)

\* "database doesn't exist" in std_err or status_code == 0
MyDropAccepted(r) ==
    Contains(MyDoesntExist, r.std_err) \/ r.status_code = 0

\* '%s_%s' % (name, suffix)
Suffixed(name, suffix) == Str(name) \o "_" \o Str(suffix)

drop_database_call(name, suffix) ==
    IF ~DropArgsAccepted(name, suffix)
    THEN Raise(Call0, "AssertionError", "name and suffix cannot be used together")
    ELSE
    LET n == IF Bool(suffix) THEN Suffixed(name, suffix) ELSE name
        c == [Call0 EXCEPT !.target = n]
        stmt == <<"DROP", "DATABASE", n>>
    IN  CASE get_db_engine = "postgresql_psycopg2" ->
                LET a == << <<"psql">>, <<"postgres">>, <<"-c">>, stmt >>
                IN  IF PgDropAccepted(run_cmd(a))
                    THEN Ran(c, a)
                    ELSE Raise(Ran(c, a), "AssertionError", "")
          [] get_db_engine = "mysql" ->
                LET a == mysql_args(<< <<"-e">>, stmt >>)
                IN  IF MyDropAccepted(run_cmd(a))
                    THEN Ran(c, a)
                    ELSE Raise(Ran(c, a), "AssertionError", "")
          [] get_db_engine = "sqlite3" ->
                IF n = InMemoryName
                THEN Raise(c, "AssertionError", "sqlite in-memory database cannot be dropped!")
                ELSE IF n \in dbs       \* os.path.exists(name): os.unlink(name)
                THEN [c EXCEPT !.dbs = @ \ {n}, !.marked = @ \ {n}]
                ELSE c
          [] OTHER -> Raise(c, "AssertionError", UnsupportedMessage)

----------------------------------------------------------------------------
(* db_exists: lines 91-111 *)

\* r.status_code == 0
StatusOk(r) == r.status_code = 0

\* Variant: the test made on the suffixed local name, as drop_database makes it.
ExistsInMemory_local(name) == name = InMemoryName

\* if TEST_DB_NAME == ':memory:' (the module-level name, not the suffixed one)
ExistsInMemory(name) == TEST_DB_NAME = InMemoryName

db_exists_call(db_suffix) ==
    LET n == IF Bool(db_suffix) THEN Suffixed(TEST_DB_NAME, db_suffix) ELSE TEST_DB_NAME
        c == [Call0 EXCEPT !.target = n]
        stmt == <<"SELECT", "1">>
    IN  CASE get_db_engine = "postgresql_psycopg2" ->
                LET a == << <<"psql">>, <<n>>, <<"-c">>, stmt >>
                IN  Return(Ran(c, a), PyBool(StatusOk(run_cmd(a))))
          [] get_db_engine = "mysql" ->
                LET a == mysql_args(<< <<n>>, <<"-e">>, stmt >>)
                IN  Return(Ran(c, a), PyBool(StatusOk(run_cmd(a))))
          [] get_db_engine = "sqlite3" ->
                IF ExistsInMemory(n)
                THEN Raise(c, "AssertionError",
                           "sqlite in-memory database cannot be checked for existence!")
                ELSE Return(c, PyBool(n \in dbs))       \* os.path.exists(name)
          [] OTHER -> Raise(c, "AssertionError", UnsupportedMessage)

----------------------------------------------------------------------------
(* mark_database: lines 114-137 *)

mark_database_call ==
    LET c == [Call0 EXCEPT !.target = TEST_DB_NAME]
    IN  CASE get_db_engine = "postgresql_psycopg2" ->
                LET a == << <<"psql">>, <<TEST_DB_NAME>>, <<"-c">>,
                            <<"CREATE", "TABLE", "mark_table();">> >>
                IN  IF StatusOk(run_cmd(a))
                    THEN Ran(c, a)
                    ELSE Raise(Ran(c, a), "AssertionError", "")
          [] get_db_engine = "mysql" ->
                LET a == mysql_args(<< <<TEST_DB_NAME>>, <<"-e">>,
                                       <<"CREATE", "TABLE", "mark_table(kaka", "int);">> >>)
                IN  IF StatusOk(run_cmd(a))
                    THEN Ran(c, a)
                    ELSE Raise(Ran(c, a), "AssertionError", "")
          [] get_db_engine = "sqlite3" ->
                IF TEST_DB_NAME = InMemoryName
                THEN Raise(c, "AssertionError", "sqlite in-memory database cannot be marked!")
                ELSE
                LET opened == Connected(c, TEST_DB_NAME)
                    e == SqliteExecute(TEST_DB_NAME,
                                       <<"CREATE", "TABLE", "mark_table(kaka", "int);">>)
                IN  IF e.exc # ""
                    THEN Raise(opened, e.exc, e.msg)
                    ELSE [opened EXCEPT !.marked = @ \cup {TEST_DB_NAME}]
          [] OTHER -> Raise(c, "AssertionError", UnsupportedMessage)

----------------------------------------------------------------------------
(* mark_exists: lines 140-167 *)

\* Variant: bool(r.std_err), the other captured stream.
PgMarkSeen_stderr(r) == r.std_err # <<>>

\* bool(r.std_out): "when something pops out on std_out, we are good"
PgMarkSeen(r) == r.std_out # <<>>

\* except sqlite3.OperationalError: return False
SqliteMarkSeen(e) == e.exc # "OperationalError"

mark_exists_call ==
    LET c == [Call0 EXCEPT !.target = TEST_DB_NAME]
        stmt == <<"SELECT", "1", "FROM", "mark_table">>
    IN  CASE get_db_engine = "postgresql_psycopg2" ->
                LET a == << <<"psql">>, <<TEST_DB_NAME>>, <<"-c">>, stmt >>
                IN  Return(Ran(c, a), PyBool(PgMarkSeen(run_cmd(a))))
          [] get_db_engine = "mysql" ->
                LET a == mysql_args(<< <<TEST_DB_NAME>>, <<"-e">>, stmt >>)
                IN  Return(Ran(c, a), PyBool(StatusOk(run_cmd(a))))
          [] get_db_engine = "sqlite3" ->
                IF TEST_DB_NAME = InMemoryName
                THEN Raise(c, "AssertionError",
                           "sqlite in-memory database cannot be checked for mark!")
                ELSE
                LET opened == Connected(c, TEST_DB_NAME)
                    e == SqliteExecute(TEST_DB_NAME, stmt)
                IN  Return(opened, PyBool(SqliteMarkSeen(e)))
          [] OTHER -> Raise(c, "AssertionError", UnsupportedMessage)

----------------------------------------------------------------------------
(* skip_if_sqlite_in_memory: lines 54-59 *)

\* ENGINE == 'django.db.backends.sqlite3' and NAME == ':memory:'
SkipGuard == settings.ENGINE = SqliteEngineString /\ settings.NAME = InMemoryName

skip_if_sqlite_in_memory_call ==
    IF SkipGuard
    THEN Raise(Call0, "Skipped", "Do not test db reuse since database does not support it")
    ELSE Call0

----------------------------------------------------------------------------
(* noop_transactions: lines 170-191 *)

\* Rows named 'transaction_noop_test' once the insert was rolled back
\* (with transaction.commit_manually(): create; rollback).
AfterRollback(before) == IF conn.rollback_noop THEN before + 1 ELSE before

\* Variant: the two branches of the try statement exchanged.
ProbeSeen_swapped(rows) == rows = 0

\* try: Item.objects.get(...) / except Item.DoesNotExist: False / else: True
ProbeSeen(rows) == rows # 0

noop_transactions_call ==
    IF conn.has_in_atomic_block
    THEN Return(Call0, PyBool(conn.in_atomic_block))
    ELSE
    LET rows == AfterRollback(items)
    IN  IF rows > 1      \* get() finds more than one row
        THEN Raise([Call0 EXCEPT !.items = rows], "MultipleObjectsReturned", "")
        ELSE IF ProbeSeen(rows)
        THEN Return([Call0 EXCEPT !.items = rows - 1], "True")     \* item.delete()
        ELSE Return([Call0 EXCEPT !.items = rows], "False")

----------------------------------------------------------------------------
(* State machine *)

Engines ==
    { <<"django", "db", "backends", "postgresql_psycopg2">>,
      <<"django", "db", "backends", "mysql">>,
      <<"django", "db", "backends", "sqlite3">>,
      <<"thirdparty", "sqlite3">>,
      <<"django", "db", "backends", "oracle">> }

Supported == {"postgresql_psycopg2", "mysql", "sqlite3"}

\* The settings a run can be started with.  Only sqlite has in-memory names, and
\* only run_mysql reads USER.
Settings ==
    { s \in [ENGINE : Engines, NAME : {"db", InMemoryName},
             TEST_NAME : {NoneVal, "tdb", InMemoryName}, USER : {NoneVal, "root"}] :
        /\ s.ENGINE[Len(s.ENGINE)] # "sqlite3" =>
                s.NAME # InMemoryName /\ s.TEST_NAME # InMemoryName
        /\ s.ENGINE[Len(s.ENGINE)] # "mysql" => s.USER = NoneVal }

\* Connections: only a connection that has in_atomic_block can be inside one.
Connections ==
    { c \in [has_in_atomic_block : BOOLEAN, in_atomic_block : BOOLEAN,
             rollback_noop : BOOLEAN] :
        ~c.has_in_atomic_block => ~c.in_atomic_block }

Suffixes == {NoneVal, "gw0"}

\* name arguments of drop_database: the default, and none.
DropNames == {TEST_DB_NAME, NoneVal}

\* Databases the inner test run creates.
InnerDatabases ==
    IF TEST_DB_NAME = InMemoryName
    THEN {}
    ELSE {TEST_DB_NAME, Suffixed(TEST_DB_NAME, "gw0")}

\* What can go wrong around a client of this backend.
Faults ==
    CASE get_db_engine = "postgresql_psycopg2" -> {"connfail", "norole", "busy", "killed"}
      [] get_db_engine = "mysql" -> {"connfail", "norole", "killed"}
      [] get_db_engine = "sqlite3" -> {"locked"}
      [] OTHER -> {}

Idle(op) ==
    [op |-> op, name |-> NoneVal, suffix |-> NoneVal,
     target |-> NoneVal, outcome |-> "none", value |-> "None", exc |-> "", msg |-> "",
     cmds |-> <<>>, conns |-> <<>>,
     result |-> CmdResult(0, <<>>, <<>>), proc |-> <<0, <<>>, <<>> >>,
     pre_dbs |-> dbs, pre_marked |-> marked, pre_items |-> items,
     prev |-> <<"other", NoneVal, "none">>]

\* The call before this one, when it was a drop_database: on which database,
\* and how it ended.
Previous ==
    IF last.op = "drop_database"
    THEN <<last.op, last.target, last.outcome>>
    ELSE <<"other", NoneVal, "none">>

Init ==
    /\ settings \in Settings
    /\ dbs = {}
    /\ marked = {}
    /\ markedOk = {}
    /\ fault = "none"
    /\ conn \in Connections
    /\ items = 0
    /\ last = Idle("init")

\* The call ended as c says.
Finish(op, name, suffix, c) ==
    /\ dbs' = c.dbs
    /\ marked' = c.marked
    /\ items' = c.items
    /\ markedOk' = (IF op = "mark_database" /\ c.outcome = "return"
                    THEN markedOk \cup {c.target}
                    ELSE markedOk) \cap c.dbs
    /\ last' = [op |-> op, name |-> name, suffix |-> suffix,
                target |-> c.target, outcome |-> c.outcome, value |-> c.value,
                exc |-> c.exc, msg |-> c.msg, cmds |-> c.cmds, conns |-> c.conns,
                result |-> c.result, proc |-> c.proc,
                pre_dbs |-> dbs, pre_marked |-> marked, pre_items |-> items,
                prev |-> Previous]
    /\ UNCHANGED <<settings, fault, conn>>

drop_database ==
    \E name \in DropNames, suffix \in Suffixes :
        Finish("drop_database", name, suffix, drop_database_call(name, suffix))

db_exists ==
    \E db_suffix \in Suffixes :
        Finish("db_exists", NoneVal, db_suffix, db_exists_call(db_suffix))

mark_database == Finish("mark_database", NoneVal, NoneVal, mark_database_call)

mark_exists == Finish("mark_exists", NoneVal, NoneVal, mark_exists_call)

skip_if_sqlite_in_memory ==
    Finish("skip_if_sqlite_in_memory", NoneVal, NoneVal, skip_if_sqlite_in_memory_call)

noop_transactions ==
    /\ items <= MaxItems
    /\ Finish("noop_transactions", NoneVal, NoneVal, noop_transactions_call)

\* The inner test run creates one of its databases.
CreateDatabase ==
    \E n \in InnerDatabases \ dbs :
        /\ dbs' = dbs \cup {n}
        /\ last' = [Idle("CreateDatabase") EXCEPT !.target = n, !.prev = Previous]
        /\ UNCHANGED <<settings, marked, markedOk, fault, conn, items>>

\* A test enters or leaves transaction.atomic().
ToggleAtomic ==
    /\ conn.has_in_atomic_block
    /\ conn' = [conn EXCEPT !.in_atomic_block = ~@]
    /\ last' = [Idle("ToggleAtomic") EXCEPT !.prev = Previous]
    /\ UNCHANGED <<settings, dbs, marked, markedOk, fault, items>>

\* Other code commits an Item named 'transaction_noop_test'.
CreateItem ==
    /\ items < MaxItems
    /\ items' = items + 1
    /\ last' = [Idle("CreateItem") EXCEPT !.prev = Previous]
    /\ UNCHANGED <<settings, dbs, marked, markedOk, fault, conn>>

\* The environment of the client breaks, or recovers.
EnvFault ==
    \E f \in (Faults \cup {"none"}) \ {fault} :
        /\ fault' = f
        /\ last' = [Idle("EnvFault") EXCEPT !.prev = Previous]
        /\ UNCHANGED <<settings, dbs, marked, markedOk, conn, items>>

Calls ==
    \/ drop_database
    \/ db_exists
    \/ mark_database
    \/ mark_exists
    \/ skip_if_sqlite_in_memory
    \/ noop_transactions

Next ==
    \/ Calls
    \/ CreateDatabase
    \/ ToggleAtomic
    \/ CreateItem

\* The clients reach a healthy server and the sqlite file is not locked.
Spec == Init /\ [][Next]_vars

NextFaults ==
    \/ Next
    \/ EnvFault

\* Any client command may also fail for a reason of its environment.
SpecFaults == Init /\ [][NextFaults]_vars

----------------------------------------------------------------------------
(* Properties.  They read the configured engine from the settings          *)
(* themselves, and say what a call did by the record of the last call.     *)

ConfiguredEngine == settings.ENGINE[Len(settings.ENGINE)]

OnSupported == ConfiguredEngine \in Supported

DatabaseCalls == {"drop_database", "db_exists", "mark_database", "mark_exists"}

\* The name/suffix check of drop_database let the last call through.
LastArgsPass == Bool(last.name) # Bool(last.suffix)

NoSideEffect ==
    /\ last.cmds = <<>>
    /\ last.conns = <<>>
    /\ dbs = last.pre_dbs
    /\ marked = last.pre_marked

\* C1: on a supported backend, once drop_database() has returned without
\* raising, the database it was aimed at does not exist, so db_exists() for the
\* default name answers False; whatever the outcome of the client command.
C1_ReturnedDropLeavesNoDatabase ==
    (last.op = "drop_database" /\ last.outcome = "return" /\ OnSupported) =>
        /\ last.target \notin dbs
        /\ (last.target = TEST_DB_NAME /\ fault = "none") =>
                db_exists_call(NoneVal).value = "False"

\* C2: on a supported backend whose test database exists, mark_exists()
\* returns True if mark_database() has returned on that database since it was
\* created, and False if it never has; in every state, mark_exists() called
\* there would answer so, and every call made did.
C2_MarkExistsFollowsMark ==
    (OnSupported /\ TEST_DB_NAME \in dbs) =>
        /\ mark_exists_call.outcome = "return"
        /\ mark_exists_call.value = PyBool(TEST_DB_NAME \in markedOk)
        /\ (last.op = "mark_exists" /\ TEST_DB_NAME \in last.pre_dbs) =>
                /\ last.outcome = "return"
                /\ last.value = PyBool(TEST_DB_NAME \in markedOk)

\* C2 happens: on postgres, mark_exists() has answered True on a database
\* mark_database() marked, after a drop of another database in between.
C2_Witness ==
    /\ ConfiguredEngine = "postgresql_psycopg2"
    /\ last.op = "mark_exists"
    /\ last.prev[1] = "drop_database"
    /\ last.value = "True"
    /\ TEST_DB_NAME \in markedOk

\* C3 as stated: noop_transactions() returns True exactly when a row inserted
\* and rolled back is still visible, False exactly when it is not, in every
\* connection state.
C3_ProbeDecidesAlways ==
    last.op = "noop_transactions" =>
        /\ last.outcome = "return"
        /\ last.value = PyBool(conn.rollback_noop)

\* C3 amended: on a connection without in_atomic_block, and with no other Item
\* named 'transaction_noop_test', noop_transactions() returns True exactly when
\* the rolled-back row is still visible and leaves no row behind; on a
\* connection with in_atomic_block it returns connection.in_atomic_block and
\* inserts nothing.
C3_ProbeOrAtomicBlock ==
    last.op = "noop_transactions" =>
        IF conn.has_in_atomic_block
        THEN /\ last.outcome = "return"
             /\ last.value = PyBool(conn.in_atomic_block)
             /\ items = last.pre_items
        ELSE last.pre_items = 0 =>
                /\ last.outcome = "return"
                /\ last.value = PyBool(conn.rollback_noop)
                /\ items = 0

\* C3 happens: the probe ran on a connection without in_atomic_block and found
\* the rolled-back row.
C3_Witness ==
    /\ last.op = "noop_transactions"
    /\ ~conn.has_in_atomic_block
    /\ last.pre_items = 0
    /\ conn.rollback_noop
    /\ last.value = "True"

\* C4: on an engine that is none of the three supported ones, each of the four
\* database calls raises AssertionError and before that runs no command, opens
\* no sqlite connection and changes no database; the message is
\* '<engine> cannot be tested properly!' for every call that passes
\* drop_database's own name/suffix check.
C4_UnsupportedEngineFailsFast ==
    (last.op \in DatabaseCalls /\ ~OnSupported) =>
        /\ last.outcome = "raise"
        /\ last.exc = "AssertionError"
        /\ NoSideEffect
        /\ (last.op # "drop_database" \/ LastArgsPass) =>
                last.msg = ConfiguredEngine \o " cannot be tested properly!"

\* C4 happens: drop_database() with its defaults was refused on oracle.
C4_Witness ==
    /\ last.op = "drop_database"
    /\ last.name = TEST_DB_NAME
    /\ ~Bool(last.suffix)
    /\ last.msg = "oracle cannot be tested properly!"

InMemoryMessage ==
    [drop_database |-> "sqlite in-memory database cannot be dropped!",
     db_exists |-> "sqlite in-memory database cannot be checked for existence!",
     mark_database |-> "sqlite in-memory database cannot be marked!",
     mark_exists |-> "sqlite in-memory database cannot be checked for mark!"]

\* C5: on sqlite3 with TEST_DB_NAME == ':memory:', drop_database() with its
\* default name, db_exists() with any suffix or none, mark_database() and
\* mark_exists() each raise AssertionError with the in-memory message of that
\* call, having opened, created and deleted no file.
C5_InMemoryIsRefused ==
    (/\ last.op \in DatabaseCalls
     /\ ConfiguredEngine = "sqlite3"
     /\ TEST_DB_NAME = ":memory:"
     /\ last.op = "drop_database" => (last.name = TEST_DB_NAME /\ ~Bool(last.suffix))) =>
        /\ last.outcome = "raise"
        /\ last.exc = "AssertionError"
        /\ last.msg = InMemoryMessage[last.op]
        /\ NoSideEffect

\* C5 happens: db_exists('gw0') was refused on an in-memory sqlite.
C5_Witness ==
    /\ last.op = "db_exists"
    /\ last.suffix = "gw0"
    /\ ConfiguredEngine = "sqlite3"
    /\ TEST_DB_NAME = ":memory:"
    /\ last.outcome = "raise"

C7_DropIsIdempotent ==
    (/\ last.op = "drop_database"
     /\ LastArgsPass
     /\ OnSupported
     /\ last.target # ":memory:") =>
        /\ last.target \notin last.pre_dbs =>
                /\ last.outcome = "return"
                /\ dbs = last.pre_dbs
                /\ marked = last.pre_marked
        /\ last.outcome = "return" => last.target \notin dbs
        /\ last.prev = <<"drop_database", last.target, "return">> =>
                /\ last.outcome = "return"
                /\ dbs = last.pre_dbs
                /\ marked = last.pre_marked

\* C7 happens: postgres was asked to drop the database a drop had just
\* removed, and the second call returned.
C7_Witness ==
    /\ ConfiguredEngine = "postgresql_psycopg2"
    /\ last.op = "drop_database"
    /\ last.prev = <<"drop_database", last.target, "return">>
    /\ last.target \notin last.pre_dbs
    /\ last.cmds # <<>>
    /\ last.outcome = "return"

\* C8: drop_database(suffix=s) with the default name and a non-empty s passes
\* the name/suffix check and drops '<TEST_DB_NAME>_<s>', the database
\* db_exists(db_suffix=s) asks about, which therefore answers False afterwards.
C8_SuffixDropIsAccepted ==
    (/\ last.op = "drop_database"
     /\ last.name = TEST_DB_NAME
     /\ Bool(last.suffix)
     /\ OnSupported
     /\ TEST_DB_NAME # ":memory:") =>
        /\ last.outcome = "return"
        /\ last.target = TEST_DB_NAME \o "_" \o last.suffix
        /\ last.target \notin dbs
        /\ db_exists_call(last.suffix).value = "False"

\* C9: on a supported backend no call of db_exists() or mark_exists() changes
\* which databases exist or which hold the mark table.
C9_QueriesAreReadOnly ==
    (last.op \in {"db_exists", "mark_exists"} /\ OnSupported) =>
        /\ dbs = last.pre_dbs
        /\ marked = last.pre_marked

\* C10: on sqlite3, skip_if_sqlite_in_memory() skips exactly when the module
\* takes the test database for in-memory (TEST_DB_NAME == ':memory:'), that is
\* exactly when the database calls raise their in-memory AssertionError.
C10_SkipGuardAgrees ==
    (last.op = "skip_if_sqlite_in_memory" /\ ConfiguredEngine = "sqlite3") =>
        /\ (last.exc = "Skipped") <=> (TEST_DB_NAME = ":memory:")
        /\ (last.exc = "Skipped") <=> (db_exists_call(NoneVal).msg = InMemoryMessage.db_exists)

====
